---- MODULE Spec2Model ----
(***************************************************************************)
(* State-machine model of discord.js ThreadManager                         *)
(* (packages/discord.js/src/managers/ThreadManager.js): the manager cache, *)
(* create, fetch routing, fetchArchived's cursor selection, fetchActive    *)
(* and the response mapper _mapThreads.                                    *)
(*                                                                         *)
(* JavaScript values are tagged records; strings are tuples of one-letter  *)
(* strings so that String(), the snowflake regular expression, Date        *)
(* parsing and toISOString() are computed, not assumed.                    *)
(***************************************************************************)
EXTENDS Integers, Sequences, FiniteSets, TLC

(***************************************************************************)
(* JavaScript values                                                       *)
(***************************************************************************)
Undefined == [tag |-> "undefined"]
Null == [tag |-> "null"]
Bool(b) == [tag |-> "boolean", b |-> b]
Str(cs) == [tag |-> "string", chars |-> cs]
\* a non-negative integer number, as its decimal digits (no leading zero)
Num(ds) == [tag |-> "number", digits |-> ds]
DateObj(t) == [tag |-> "date", time |-> t]
PlainObject == [tag |-> "object"]
\* a live ThreadChannel instance, by its reference into the heap
ThreadRef(r) == [tag |-> "ThreadChannel", ref |-> r]
\* a live Message instance
MessageObj(id) == [tag |-> "Message", msgId |-> id]

TypeOf(v) ==
  CASE v.tag = "undefined" -> "undefined"
    [] v.tag = "boolean" -> "boolean"
    [] v.tag = "string" -> "string"
    [] v.tag = "number" -> "number"
    [] OTHER -> "object"

\* ToBoolean: undefined, null, false, 0 and '' are falsy
Truthy(v) ==
  CASE v.tag = "undefined" -> FALSE
    [] v.tag = "null" -> FALSE
    [] v.tag = "boolean" -> v.b
    [] v.tag = "string" -> Len(v.chars) > 0
    [] v.tag = "number" -> v.digits # <<0>>
    [] OTHER -> TRUE

\* v ?? d
Nullish(v) == v.tag \in {"undefined", "null"}

DigitChar == <<"0", "1", "2", "3", "4", "5", "6", "7", "8", "9">>
DigitChars == {DigitChar[i] : i \in 1..10}
DigitVal(c) == (CHOOSE i \in 1..10 : DigitChar[i] = c) - 1
Rep(c, n) == [i \in 1..n |-> c]
Chars(ds) == [i \in 1..Len(ds) |-> DigitChar[ds[i] + 1]]
\* n >= 0 as exactly w decimal digit characters (n < 10^w)
RECURSIVE Pad(_, _)
Pad(n, w) == IF w = 0 THEN <<>> ELSE Append(Pad(n \div 10, w - 1), DigitChar[(n % 10) + 1])
\* the value of a tuple of digit characters (short fields only)
RECURSIVE Val(_)
Val(cs) == IF Len(cs) = 0 THEN 0
           ELSE 10 * Val(SubSeq(cs, 1, Len(cs) - 1)) + DigitVal(cs[Len(cs)])
AllDigits(cs) == \A i \in 1..Len(cs) : cs[i] \in DigitChars

(***************************************************************************)
(* Time values: milliseconds since the epoch, kept as whole days and the   *)
(* milliseconds of the day (the range of a Date, +-8.64e15 ms, does not    *)
(* fit a machine integer of the checker).  NaN is the invalid time value.  *)
(***************************************************************************)
MsPerDay == 86400000
MaxDays == 100000000
NaN == [valid |-> FALSE, days |-> 0, ms |-> 0]
Time(d, m) == [valid |-> TRUE, days |-> d, ms |-> m]

\* new Date(number): TimeClip of a non-negative integer given by its digits
RECURSIVE NumToTime(_)
NumToTime(ds) ==
  IF Len(ds) = 0 THEN Time(0, 0)
  ELSE LET p == NumToTime(SubSeq(ds, 1, Len(ds) - 1))
           m == p.ms * 10 + ds[Len(ds)]
           d == p.days * 10 + (m \div MsPerDay)
       IN  IF ~p.valid \/ d > MaxDays \/ (d = MaxDays /\ m % MsPerDay > 0) THEN NaN
           ELSE Time(d, m % MsPerDay)

DaysInMonth(y, m) ==
  IF m = 2 THEN (IF (y % 4 = 0 /\ y % 100 # 0) \/ y % 400 = 0 THEN 29 ELSE 28)
  ELSE IF m \in {4, 6, 9, 11} THEN 30 ELSE 31

\* days since 1970-01-01 of a proleptic Gregorian date
DaysFromCivil(y, m, d) ==
  LET yy == IF m <= 2 THEN y - 1 ELSE y
      era == yy \div 400
      yoe == yy - era * 400
      mp == IF m > 2 THEN m - 3 ELSE m + 9
      doy == (153 * mp + 2) \div 5 + d - 1
      doe == yoe * 365 + yoe \div 4 - yoe \div 100 + doy
  IN  era * 146097 + doe - 719468

\* the date of a day number: <<year, month, day>>
CivilFromDays(z0) ==
  LET z == z0 + 719468
      era == z \div 146097
      doe == z - era * 146097
      yoe == (doe - doe \div 1460 + doe \div 36524 - doe \div 146096) \div 365
      doy == doe - (365 * yoe + yoe \div 4 - yoe \div 100)
      mp == (5 * doy + 2) \div 153
      d == doy - (153 * mp + 2) \div 5 + 1
      m == IF mp < 10 THEN mp + 3 ELSE mp - 9
      y == yoe + era * 400 + (IF m <= 2 THEN 1 ELSE 0)
  IN  <<y, m, d>>

\* Date.parse of the ECMAScript date-time string format, the forms
\* "YYYY-MM-DD" and "YYYY-MM-DDTHH:mm:ss.sssZ"; any other text is not a date
IsoDateShape(cs) ==
  /\ Len(cs) >= 10
  /\ AllDigits(SubSeq(cs, 1, 4)) /\ cs[5] = "-"
  /\ AllDigits(SubSeq(cs, 6, 7)) /\ cs[8] = "-"
  /\ AllDigits(SubSeq(cs, 9, 10))
IsoTimeShape(cs) ==
  /\ Len(cs) = 24 /\ cs[11] = "T"
  /\ AllDigits(SubSeq(cs, 12, 13)) /\ cs[14] = ":"
  /\ AllDigits(SubSeq(cs, 15, 16)) /\ cs[17] = ":"
  /\ AllDigits(SubSeq(cs, 18, 19)) /\ cs[20] = "."
  /\ AllDigits(SubSeq(cs, 21, 23)) /\ cs[24] = "Z"
DateParse(cs) ==
  IF ~(IsoDateShape(cs) /\ (Len(cs) = 10 \/ IsoTimeShape(cs))) THEN NaN
  ELSE LET y == Val(SubSeq(cs, 1, 4))
           m == Val(SubSeq(cs, 6, 7))
           d == Val(SubSeq(cs, 9, 10))
           full == Len(cs) = 24
           h == IF full THEN Val(SubSeq(cs, 12, 13)) ELSE 0
           mi == IF full THEN Val(SubSeq(cs, 15, 16)) ELSE 0
           s == IF full THEN Val(SubSeq(cs, 18, 19)) ELSE 0
           ms == IF full THEN Val(SubSeq(cs, 21, 23)) ELSE 0
       IN  IF m \in 1..12 /\ d \in 1..DaysInMonth(y, m) /\ h <= 23 /\ mi <= 59 /\ s <= 59
           THEN Time(DaysFromCivil(y, m, d), ((h * 60 + mi) * 60 + s) * 1000 + ms)
           ELSE NaN

\* the time value of new Date(v)
NewDate(v) ==
  CASE v.tag = "date" -> v.time
    [] v.tag = "string" -> DateParse(v.chars)
    [] v.tag = "number" -> NumToTime(v.digits)
    [] v.tag = "null" -> Time(0, 0)
    [] v.tag = "boolean" -> Time(0, IF v.b THEN 1 ELSE 0)
    [] OTHER -> NaN

\* Date.prototype.toISOString of a valid time value
ToISOString(t) ==
  LET ymd == CivilFromDays(t.days)
      year == IF ymd[1] \in 0..9999 THEN Pad(ymd[1], 4)
              ELSE (IF ymd[1] < 0 THEN <<"-">> ELSE <<"+">>)
                   \o Pad(IF ymd[1] < 0 THEN -ymd[1] ELSE ymd[1], 6)
      h == t.ms \div 3600000
      mi == (t.ms \div 60000) % 60
      s == (t.ms \div 1000) % 60
  IN  year \o <<"-">> \o Pad(ymd[2], 2) \o <<"-">> \o Pad(ymd[3], 2) \o <<"T">>
      \o Pad(h, 2) \o <<":">> \o Pad(mi, 2) \o <<":">> \o Pad(s, 2) \o <<".">>
      \o Pad(t.ms % 1000, 3) \o <<"Z">>

\* an ISO-8601 timestamp as toISOString writes it
IsISOTimestamp(cs) ==
  \/ IsoDateShape(cs) /\ IsoTimeShape(cs)
  \/ /\ Len(cs) = 27 /\ cs[1] \in {"+", "-"} /\ AllDigits(SubSeq(cs, 2, 7))
     /\ IsoTimeShape(SubSeq(cs, 4, 27)) /\ cs[8] = "-" /\ cs[11] = "-"
     /\ AllDigits(SubSeq(cs, 9, 10)) /\ AllDigits(SubSeq(cs, 12, 13))

WeekDays == <<"Thu", "Fri", "Sat", "Sun", "Mon", "Tue", "Wed">>
Months == <<"Jan", "Feb", "Mar", "Apr", "May", "Jun", "Jul", "Aug", "Sep", "Oct", "Nov", "Dec">>

\* String(v): the text the regular expression of fetchArchived is tested on.
\* A valid Date prints as "Www Mmm DD YYYY ..." (its leading date part is
\* kept), a plain object as "[object Object]".
JSString(v) ==
  CASE v.tag = "string" -> v.chars
    [] v.tag = "number" -> Chars(v.digits)
    [] v.tag = "null" -> <<"n", "u", "l", "l">>
    [] v.tag = "undefined" -> <<"u", "n", "d", "e", "f", "i", "n", "e", "d">>
    [] v.tag = "boolean" -> IF v.b THEN <<"t", "r", "u", "e">> ELSE <<"f", "a", "l", "s", "e">>
    [] v.tag = "date" ->
         IF ~v.time.valid THEN <<"I", "n", "v", "a", "l", "i", "d", " ", "D", "a", "t", "e">>
         ELSE LET ymd == CivilFromDays(v.time.days)
              IN  <<WeekDays[(v.time.days % 7) + 1], " ", Months[ymd[2]], " ">>
                  \o Pad(ymd[3], 2) \o <<" ">> \o Pad(ymd[1], 4)
    [] OTHER -> <<"[", "o", "b", "j", "e", "c", "t", " ", "O", "b", "j", "e", "c", "t", "]">>

\* /^\d{16,19}$/.test(text)
SnowflakePattern(cs) == Len(cs) \in 16..19 /\ AllDigits(cs)


(***************************************************************************)
(* The world of the model: two channels of one guild, each with its        *)
(* ThreadManager, and the threads the remote service knows.                *)
(***************************************************************************)
\* ChannelType of discord-api-types/v10
GuildText == Num(<<0>>)
GuildNews == Num(<<5>>)
GuildNewsThread == Num(<<1, 0>>)
GuildPublicThread == Num(<<1, 1>>)
GuildPrivateThread == Num(<<1, 2>>)

Channels == {"c1", "c2"}
GuildId == "g1"
\* this.channel.type of each manager's bound channel
ChannelTypeOf(ch) == IF ch = "c2" THEN GuildNews ELSE GuildText
\* this.channel.defaultAutoArchiveDuration
DefaultAutoArchiveDuration(ch) == Num(<<1, 4, 4, 0>>)

TidA == Rep("1", 18)
TidB == Rep("2", 16)
ThreadIds == {TidA, TidB}
\* the parent channel of each thread at the remote service
RemoteParent(id) == IF id = TidA THEN "c1" ELSE "c2"
MsgId == Rep("3", 19)

IsoA == <<"2", "0", "2", "3", "-", "0", "1", "-", "0", "1", "T",
          "0", "0", ":", "0", "0", ":", "0", "0", ".", "0", "0", "0", "Z">>
TypePublic == Str(<<"p", "u", "b", "l", "i", "c">>)
TypePrivate == Str(<<"p", "r", "i", "v", "a", "t", "e">>)

\* instances ever constructed in one behaviour
MaxInst == 2

VARIABLES
  heap,          \* the live ThreadChannel instances, by reference 1..Len(heap)
  channelsCache, \* client.channels.cache: thread id -> reference, 0 when absent
  cache,         \* this.cache of each manager: thread id -> reference, 0 when absent
  calls          \* the invocation of each caller: position, arguments, request, outcome

vars == <<heap, channelsCache, cache, calls>>

Callers == {"a", "b"}
Refs == 1..Len(heap)

(***************************************************************************)
(* Collaborators that are not part of ThreadManager.js                     *)
(***************************************************************************)
\* DataManager.resolveId, inherited by ThreadManager and ChannelManager
ResolveId(v) ==
  IF v.tag = "ThreadChannel" THEN Str(heap[v.ref].id)
  ELSE IF v.tag = "string" /\ SnowflakePattern(v.chars) THEN v
  ELSE Null

\* DataManager.resolve over the cache of manager m
Resolve(m, v) ==
  IF v.tag = "ThreadChannel" THEN v
  ELSE IF v.tag = "string" /\ v.chars \in ThreadIds /\ cache[m][v.chars] # 0
       THEN ThreadRef(cache[m][v.chars])
  ELSE Null

\* this.channel.messages.resolveId
MessagesResolveId(v) ==
  IF v.tag = "Message" THEN Str(v.msgId)
  ELSE IF v.tag = "string" /\ SnowflakePattern(v.chars) THEN v
  ELSE Null

\* makeURLSearchParams({ limit }): an undefined or null option is left out
MakeURLSearchParams(limit) ==
  [limit |-> IF Nullish(limit) THEN Undefined ELSE Str(JSString(limit)),
   before |-> Undefined]

(***************************************************************************)
(* ThreadManager._add                                                      *)
(***************************************************************************)
\* a variant that stores unconditionally, replacing the instance in the cache
ManagerAddOverwrites(mc, id, ref) == [cache |-> [mc EXCEPT ![id] = ref], ret |-> ref]

\* a variant that drops the entry it finds and returns the given instance
ManagerAddDropsExisting(mc, id, ref) ==
  IF mc[id] # 0 THEN [cache |-> [mc EXCEPT ![id] = 0], ret |-> ref]
  ELSE [cache |-> [mc EXCEPT ![id] = ref], ret |-> ref]

\* _add(thread) on a manager cache mc: the new cache and the returned instance
ManagerAdd(mc, id, ref) ==
  IF mc[id] # 0 THEN [cache |-> mc, ret |-> mc[id]]
  ELSE [cache |-> [mc EXCEPT ![id] = ref], ret |-> ref]


(***************************************************************************)
(* ThreadManager.create: the request it builds, or the error it throws     *)
(***************************************************************************)
\* a variant joining the two typeof tests with ||
TypeRejectedEitherTypeof(type) ==
  Truthy(type) /\ (TypeOf(type) # "string" \/ TypeOf(type) # "number")

\* the guard of the first statement of create
TypeRejected(type) == Truthy(type) /\ TypeOf(type) # "string" /\ TypeOf(type) # "number"

\* the initial value of resolvedType
ParentThreadType(ch) ==
  IF ChannelTypeOf(ch) = GuildNews THEN GuildNewsThread ELSE GuildPublicThread

\* a variant in which a start message does not override the caller's type
ResolvedTypeKeepsCallerType(ch, startMessage, type) ==
  IF ChannelTypeOf(ch) # GuildNews
  THEN (IF Nullish(type) THEN ParentThreadType(ch) ELSE type)
  ELSE ParentThreadType(ch)

\* a variant without the announcement-channel test of the else branch
ResolvedTypeNoNewsRule(ch, startMessage, type) ==
  IF Truthy(startMessage) THEN ParentThreadType(ch)
  ELSE IF Nullish(type) THEN ParentThreadType(ch) ELSE type

\* resolvedType after the start-message branch
ResolvedType(ch, startMessage, type) ==
  IF Truthy(startMessage) THEN ParentThreadType(ch)
  ELSE IF ChannelTypeOf(ch) # GuildNews
       THEN (IF Nullish(type) THEN ParentThreadType(ch) ELSE type)
  ELSE ParentThreadType(ch)

\* a variant that sends the caller's invitable whatever the kind
BodyInvitableUnconditional(resolvedType, invitable) == invitable

\* the invitable field of the body
BodyInvitable(resolvedType, invitable) ==
  IF resolvedType = GuildPrivateThread THEN invitable ELSE Undefined

NoRequest == [method |-> "none"]

\* create(o) up to its await: [err, req]
CreateRequest(ch, o) ==
  IF TypeRejected(o.type) THEN [err |-> "INVALID_TYPE:type", req |-> NoRequest]
  ELSE LET startMessageId == IF Truthy(o.startMessage)
                             THEN MessagesResolveId(o.startMessage) ELSE Undefined
           resolvedType == ResolvedType(ch, o.startMessage, o.type)
       IN  IF Truthy(o.startMessage) /\ ~Truthy(startMessageId)
           THEN [err |-> "INVALID_TYPE:startMessage", req |-> NoRequest]
           ELSE [err |-> "none",
                 req |-> [method |-> "post",
                          path |-> [route |-> "threads", channelId |-> ch,
                                    messageId |-> startMessageId],
                          body |-> [name |-> o.name,
                                    auto_archive_duration |->
                                      IF o.autoArchiveDuration = Undefined
                                      THEN DefaultAutoArchiveDuration(ch)
                                      ELSE o.autoArchiveDuration,
                                    type |-> resolvedType,
                                    invitable |-> BodyInvitable(resolvedType, o.invitable),
                                    rate_limit_per_user |-> o.rateLimitPerUser],
                          reason |-> o.reason]]

(***************************************************************************)
(* ThreadManager.fetchArchived: the request it builds, or the error        *)
(***************************************************************************)
\* the destructuring of fetchArchived's first parameter with its defaults (a
\* value that is no options object has none of the properties)
ArchivedDefaults(o) ==
  IF o.tag # "archivedOptions"
  THEN [type |-> TypePublic, fetchAll |-> Bool(FALSE), before |-> Undefined,
        limit |-> Undefined]
  ELSE [type |-> IF o.type = Undefined THEN TypePublic ELSE o.type,
        fetchAll |-> IF o.fetchAll = Undefined THEN Bool(FALSE) ELSE o.fetchAll,
        before |-> o.before, limit |-> o.limit]

\* a variant that forgets fetchAll
UsesJoinedPathIgnoringFetchAll(type, fetchAll) == type = TypePrivate

\* type === 'private' && !fetchAll
UsesJoinedPath(type, fetchAll) == type = TypePrivate /\ ~Truthy(fetchAll)

ArchivedPath(ch, type, fetchAll) ==
  IF UsesJoinedPath(type, fetchAll)
  THEN [route |-> "channelJoinedArchivedThreads", channelId |-> ch]
  ELSE [route |-> "channelThreads", channelId |-> ch, archived |-> type]

\* before instanceof ThreadChannel || /^\d{16,19}$/.test(String(before))
IsIdentifierForm(before) ==
  before.tag = "ThreadChannel" \/ SnowflakePattern(JSString(before))

\* this.resolve(before)?.archivedAt?.toISOString()
ArchivedAtISO(e) ==
  IF e.tag # "ThreadChannel" THEN Undefined
  ELSE IF Nullish(heap[e.ref].archivedAt) THEN Undefined
  ELSE Str(ToISOString(heap[e.ref].archivedAt.time))

\* a variant with the two cursors exchanged
CursorToUseSwapped(type, fetchAll, id, timestamp) ==
  IF type = TypePrivate /\ ~Truthy(fetchAll) THEN timestamp ELSE id

\* toUse
CursorToUse(type, fetchAll, id, timestamp) ==
  IF type = TypePrivate /\ ~Truthy(fetchAll) THEN id ELSE timestamp

\* a variant that falls back to the identifier when there is no timestamp
IdentifierCursorFallsBackToId(m, type, fetchAll, before) ==
  LET id == ResolveId(before)
      timestamp == ArchivedAtISO(Resolve(m, before))
      toUse == CursorToUse(type, fetchAll, id, timestamp)
  IN  IF Truthy(toUse) THEN toUse ELSE IF Truthy(id) THEN id ELSE Undefined

\* the identifier branch: the value of query.before
IdentifierCursor(m, type, fetchAll, before) ==
  LET id == ResolveId(before)
      timestamp == ArchivedAtISO(Resolve(m, before))
      toUse == CursorToUse(type, fetchAll, id, timestamp)
  IN  IF Truthy(toUse) THEN toUse ELSE Undefined

\* the date branch, entered with a valid date: the value of query.before
DateCursor(type, fetchAll, timestamp) ==
  IF type = TypePublic \/ Truthy(fetchAll) THEN timestamp ELSE Undefined

\* fetchArchived(o) of manager m up to its await: [err, req]
FetchArchivedRequest(m, o) ==
  LET d == ArchivedDefaults(o)
      path == ArchivedPath(m, d.type, d.fetchAll)
      query == MakeURLSearchParams(d.limit)
      get(q) == [err |-> "none", req |-> [method |-> "get", path |-> path, query |-> q]]
  IN  IF d.before = Undefined THEN get(query)
      ELSE IF IsIdentifierForm(d.before)
           THEN get([query EXCEPT !.before =
                       IdentifierCursor(m, d.type, d.fetchAll, d.before)])
      ELSE IF ~NewDate(d.before).valid
           THEN [err |-> "INVALID_TYPE:before", req |-> NoRequest]
      ELSE get([query EXCEPT !.before =
                  DateCursor(d.type, d.fetchAll, Str(ToISOString(NewDate(d.before))))])

\* fetchActive up to its await
FetchActiveRequest(m) ==
  [err |-> "none",
   req |-> [method |-> "get", path |-> [route |-> "guildActiveThreads", guildId |-> GuildId]]]

(***************************************************************************)
(* ThreadManager.fetch: the routing                                        *)
(***************************************************************************)
\* options.archived of a selector (undefined on a value without the field)
ArchivedOf(options) ==
  IF options.tag = "options" THEN options.archived
  ELSE IF options.tag = "ThreadChannel"
       THEN Bool(~Nullish(heap[options.ref].archivedAt))
  ELSE Undefined

\* a variant that looks at options.archived before resolving an identifier
FetchRouteArchivedFirst(options) ==
  IF ~Truthy(options) THEN "fetchActive"
  ELSE IF Truthy(ArchivedOf(options)) THEN "fetchArchived"
  ELSE IF Truthy(ResolveId(options)) THEN "channels.fetch"
  ELSE "fetchActive"

\* the target fetch delegates to
FetchRoute(options) ==
  IF ~Truthy(options) THEN "fetchActive"
  ELSE IF Truthy(ResolveId(options)) THEN "channels.fetch"
  ELSE IF Truthy(ArchivedOf(options)) THEN "fetchArchived"
  ELSE "fetchActive"


(***************************************************************************)
(* The response mapper                                                     *)
(***************************************************************************)
\* the ThreadChannel constructed from a raw thread payload
NewThread(raw) ==
  [id |-> raw.id, parentId |-> raw.parent_id,
   archivedAt |-> IF raw.archive_timestamp = Undefined THEN Null
                  ELSE DateObj(DateParse(raw.archive_timestamp.chars)),
   hasMember |-> FALSE]

\* the construction of a new entity for a payload, whatever the shared cache
\* holds (used by the variant reducer below)
ChannelsAddAlwaysCreates(st, raw, cacheFlag) ==
  LET ref == Len(st.heap) + 1
  IN  [st |-> [heap |-> Append(st.heap, NewThread(raw)),
               cc |-> IF cacheFlag THEN [st.cc EXCEPT ![raw.id] = ref] ELSE st.cc,
               mc |-> IF cacheFlag
                      THEN [st.mc EXCEPT ![raw.parent_id] =
                              ManagerAdd(st.mc[raw.parent_id], raw.id, ref).cache]
                      ELSE st.mc],
       thread |-> ref]

\* client.channels._add(raw, guild, { cache }) on the stores st = [heap, cc, mc]:
\* the entity of the shared cache if there is one (refreshed from the payload
\* when caching), else a new instance, stored in the shared cache and handed to
\* its parent's manager when caching
ChannelsAdd(st, raw, cacheFlag) ==
  LET existing == st.cc[raw.id]
      parent == raw.parent_id
  IN  IF existing # 0
      THEN [st |-> IF cacheFlag
                   THEN [heap |-> [st.heap EXCEPT ![existing].archivedAt = NewThread(raw).archivedAt],
                         cc |-> st.cc,
                         mc |-> [st.mc EXCEPT
                                   ![parent] = ManagerAdd(st.mc[parent], raw.id, existing).cache]]
                   ELSE st,
            thread |-> existing]
      ELSE LET ref == Len(st.heap) + 1
           IN  [st |-> [heap |-> Append(st.heap, NewThread(raw)),
                        cc |-> IF cacheFlag THEN [st.cc EXCEPT ![raw.id] = ref] ELSE st.cc,
                        mc |-> IF cacheFlag
                               THEN [st.mc EXCEPT
                                       ![parent] = ManagerAdd(st.mc[parent], raw.id, ref).cache]
                               ELSE st.mc],
                thread |-> ref]

\* coll.set(thread.id, thread) on an ordered mapping kept as a tuple of
\* references: an existing key keeps its place and takes the new value
CollSet(heapNow, coll, ref) ==
  IF \E i \in 1..Len(coll) : heapNow[coll[i]].id = heapNow[ref].id
  THEN [i \in 1..Len(coll) |-> IF heapNow[coll[i]].id = heapNow[ref].id THEN ref ELSE coll[i]]
  ELSE Append(coll, ref)

\* a variant without the parent filter
KeptByParentAlways(parent, thread) == TRUE

\* the parent filter of the reducer: whether the thread is kept
KeptByParent(parent, thread) == thread.parentId = parent

\* a variant of the reducer that constructs an entity for every payload
\* instead of taking the one client.channels._add returns
RECURSIVE ReduceThreadsConstructing(_, _, _, _)
ReduceThreadsConstructing(raws, acc, parent, cacheFlag) ==
  IF Len(raws) = 0 THEN acc
  ELSE LET r == ChannelsAddAlwaysCreates(acc.st, Head(raws), cacheFlag)
       IN  ReduceThreadsConstructing(Tail(raws),
                                     [st |-> r.st,
                                      coll |-> IF KeptByParent(parent, r.st.heap[r.thread])
                                               THEN CollSet(r.st.heap, acc.coll, r.thread)
                                               ELSE acc.coll],
                                     parent, cacheFlag)

\* a variant of the reducer that applies the parent filter to the payload
\* before materializing it
RECURSIVE ReduceThreadsFilterFirst(_, _, _, _)
ReduceThreadsFilterFirst(raws, acc, parent, cacheFlag) ==
  IF Len(raws) = 0 THEN acc
  ELSE IF Head(raws).parent_id # parent
       THEN ReduceThreadsFilterFirst(Tail(raws), acc, parent, cacheFlag)
  ELSE LET r == ChannelsAdd(acc.st, Head(raws), cacheFlag)
       IN  ReduceThreadsFilterFirst(Tail(raws),
                                    [st |-> r.st, coll |-> CollSet(r.st.heap, acc.coll, r.thread)],
                                    parent, cacheFlag)

\* rawThreads.threads.reduce(...): the stores and the collection after the
\* payloads raws, starting from acc = [st, coll]
RECURSIVE ReduceThreads(_, _, _, _)
ReduceThreads(raws, acc, parent, cacheFlag) ==
  IF Len(raws) = 0 THEN acc
  ELSE LET r == ChannelsAdd(acc.st, Head(raws), cacheFlag)
       IN  ReduceThreads(Tail(raws),
                         [st |-> r.st,
                          coll |-> IF KeptByParent(parent, r.st.heap[r.thread])
                                   THEN CollSet(r.st.heap, acc.coll, r.thread)
                                   ELSE acc.coll],
                         parent, cacheFlag)

\* for (const rawMember of rawThreads.members)
\*   client.channels.cache.get(rawMember.id)?.members._add(rawMember)
RECURSIVE AttachMembers(_, _, _)
AttachMembers(members, heapNow, cc) ==
  IF Len(members) = 0 THEN heapNow
  ELSE LET ref == cc[Head(members)]
       IN  AttachMembers(Tail(members),
                         IF ref # 0 THEN [heapNow EXCEPT ![ref].hasMember = TRUE] ELSE heapNow,
                         cc)

\* a variant that does not hand the caller's cache flag to the shared cache
MapThreadsNeverCaching(raw, st, parent, cacheFlag) ==
  LET red == ReduceThreads(raw.threads, [st |-> st, coll |-> <<>>], parent, FALSE)
  IN  [st |-> [red.st EXCEPT !.heap = AttachMembers(raw.members, red.st.heap, red.st.cc)],
       result |-> [threads |-> red.coll,
                   hasMore |-> IF Nullish(raw.has_more) THEN Bool(FALSE) ELSE raw.has_more]]

\* _mapThreads(rawThreads, client, { parent, cache }): the stores afterwards
\* and the returned { threads, hasMore }
MapThreads(raw, st, parent, cacheFlag) ==
  LET red == ReduceThreads(raw.threads, [st |-> st, coll |-> <<>>], parent, cacheFlag)
  IN  [st |-> [red.st EXCEPT !.heap = AttachMembers(raw.members, red.st.heap, red.st.cc)],
       result |-> [threads |-> red.coll,
                   hasMore |-> IF Nullish(raw.has_more) THEN Bool(FALSE) ELSE raw.has_more]]

\* client.actions.ThreadCreate.handle(data).thread: the creation-event
\* handler materializes the entity through the shared cache, caching it
ThreadCreateHandle(data, st) == ChannelsAdd(st, data, TRUE)


(***************************************************************************)
(* Inputs                                                                  *)
(***************************************************************************)
Num16 == Num(<<1, 0, 0, 0, 0, 0, 0, 0, 0, 0, 0, 0, 0, 0, 0, 0>>)
Num13 == Num(<<1, 6, 7, 2, 5, 3, 1, 2, 0, 0, 0, 0, 0>>)
NotADate == Str(<<"s", "o", "o", "n">>)
TidX == Rep("9", 17)
ArchivedOptions(type, fetchAll, before, limit) ==
  [tag |-> "archivedOptions", type |-> type, fetchAll |-> fetchAll,
   before |-> before, limit |-> limit]

\* the values of `before`: absent, null, every live instance, identifier
\* strings (of the known threads and of an unknown one), numbers (a 13-digit
\* and a 16-digit timestamp), a date string, a string that is no date in any
\* engine, a valid and an invalid Date object
BeforeInputs ==
  {Undefined, Null} \cup {ThreadRef(r) : r \in Refs}
  \cup {Str(TidA), Str(TidB), Str(TidX)}
  \cup {Num13, Num16, Str(IsoA), NotADate, DateObj(DateParse(IsoA)), DateObj(NaN)}

ArchivedInputs ==
  {ArchivedOptions(t, f, b, l) :
     t \in {Undefined, TypePublic, TypePrivate}, f \in {Undefined, Bool(TRUE)},
     b \in BeforeInputs, l \in {Undefined, Num(<<5, 0>>)}}

TypeInputs ==
  {Undefined, Null, GuildNewsThread, GuildPublicThread, GuildPrivateThread,
   Num(<<9, 9>>), Num(<<0>>), Str(<<"b", "o", "g", "u", "s">>), Bool(TRUE), Bool(FALSE),
   PlainObject}

CreateOptions(a, sm, t, i) ==
  [name |-> Str(<<"f", "o", "o">>), autoArchiveDuration |-> a, startMessage |-> sm,
   type |-> t, invitable |-> i, reason |-> Undefined, rateLimitPerUser |-> Undefined]
CreateInputs ==
  {CreateOptions(a, sm, t, i) :
     a \in {Undefined, Num(<<6, 0>>)},
     sm \in {Undefined, Str(MsgId), MessageObj(MsgId), PlainObject},
     t \in TypeInputs, i \in {Undefined, Bool(TRUE), Bool(FALSE)}}

FetchOptions(archived, active) == [tag |-> "options", archived |-> archived, active |-> active]
SelectorInputs ==
  {Undefined, Null, Str(TidA), Str(<<"a", "b", "c">>)} \cup {ThreadRef(r) : r \in Refs}
  \cup {FetchOptions(ar, ac) :
          ar \in {Undefined, ArchivedOptions(TypePrivate, Undefined, Str(TidA), Undefined),
                  ArchivedOptions(Undefined, Undefined, NotADate, Undefined)},
          ac \in {Undefined, Bool(TRUE)}}
CacheOptionInputs ==
  {[cache |-> Undefined, force |-> Undefined], [cache |-> Bool(FALSE), force |-> Bool(TRUE)]}

\* the few options the whole machine runs with
FewArchivedInputs ==
  {ArchivedOptions(Undefined, Undefined, Undefined, Undefined),
   ArchivedOptions(TypePrivate, Undefined, Str(TidA), Undefined),
   ArchivedOptions(TypePublic, Undefined, DateObj(NaN), Undefined)}
FewCreateInputs ==
  {CreateOptions(Undefined, Undefined, Undefined, Undefined),
   CreateOptions(Undefined, Str(MsgId), GuildPrivateThread, Bool(TRUE)),
   CreateOptions(Undefined, Undefined, PlainObject, Undefined),
   CreateOptions(Undefined, PlainObject, Undefined, Undefined)}

\* the responses of the remote service: each thread at most once, with or
\* without its archive timestamp; the members of the threads; has_more
RawThread(id, ts) == [id |-> id, parent_id |-> RemoteParent(id), archive_timestamp |-> ts]
RawThreads == {RawThread(id, ts) : id \in ThreadIds, ts \in {Undefined, Str(IsoA)}}
RawThreadLists ==
  {<<>>} \cup {<<x>> : x \in RawThreads}
  \cup {<<p[1], p[2]>> : p \in {q \in RawThreads \X RawThreads : q[1].id # q[2].id}}
RawResponse(ts, ms, hm) == [threads |-> ts, members |-> ms, has_more |-> hm]
RawResponses ==
  {RawResponse(ts, <<>>, Undefined) : ts \in RawThreadLists}
  \cup {RawResponse(ts, <<TidA, TidB>>, Bool(TRUE)) : ts \in RawThreadLists}
RawResponsesNoMembers == {RawResponse(ts, <<>>, Undefined) : ts \in RawThreadLists}
\* the responses whose threads carry no archive timestamp
RawResponsesUnarchived ==
  {r \in RawResponsesNoMembers :
     \A i \in 1..Len(r.threads) : r.threads[i].archive_timestamp = Undefined}

(***************************************************************************)
(* The state machine                                                       *)
(***************************************************************************)
NoResult == [tag |-> "none"]
Idle ==
  [pc |-> "idle", op |-> "none", via |-> "direct", selector |-> Undefined,
   co |-> Undefined, mgr |-> "c1",
   cache |-> TRUE, args |-> Undefined, req |-> NoRequest, err |-> "none", sent |-> 0,
   result |-> NoResult]

Init ==
  /\ heap = <<>>
  /\ channelsCache = [id \in ThreadIds |-> 0]
  /\ cache = [m \in Channels |-> [id \in ThreadIds |-> 0]]
  /\ calls = [c \in Callers |-> Idle]

\* JavaScript runs a handler to completion: nothing else runs while a call
\* stands between building its request and handing it to the transport; a
\* call suspended at its await, or settled with its outcome not yet taken,
\* lets other calls run
Quiet == \A c \in Callers : calls[c].pc # "issuing"

\* a call that has run up to its await (or thrown): r = [err, req]
Started(op, via, selector, co, m, cacheFlag, args, r) ==
  [pc |-> IF r.err = "none" THEN "issuing" ELSE "threw", op |-> op, via |-> via,
   selector |-> selector, co |-> co, mgr |-> m, cache |-> cacheFlag, args |-> args,
   req |-> r.req,
   err |-> r.err, sent |-> 0, result |-> NoResult]

\* a variant of create that empties the manager's cache before its request
CreateResettingCache(c, m, o) ==
  /\ Quiet /\ calls[c].pc = "idle"
  /\ calls' = [calls EXCEPT ![c] = Started("create", "direct", Undefined, Undefined, m, TRUE, o,
                                           CreateRequest(m, o))]
  /\ cache' = [cache EXCEPT ![m] = [id \in ThreadIds |-> 0]]
  /\ UNCHANGED <<heap, channelsCache>>

\* create(o) on the manager of channel m, up to this.client.rest.post
Create(c, m, o) ==
  /\ Quiet /\ calls[c].pc = "idle"
  /\ calls' = [calls EXCEPT ![c] = Started("create", "direct", Undefined, Undefined, m, TRUE, o,
                                           CreateRequest(m, o))]
  /\ UNCHANGED <<heap, channelsCache, cache>>

\* fetchArchived(o, cacheFlag), up to this.client.rest.get
FetchArchived(c, m, o, cacheFlag) ==
  /\ Quiet /\ calls[c].pc = "idle"
  /\ calls' = [calls EXCEPT ![c] = Started("fetchArchived", "direct", Undefined, Undefined, m,
                                           cacheFlag,
                                           o, FetchArchivedRequest(m, o))]
  /\ UNCHANGED <<heap, channelsCache, cache>>

\* fetchActive(cacheFlag), up to this.client.rest.get
FetchActive(c, m, cacheFlag) ==
  /\ Quiet /\ calls[c].pc = "idle"
  /\ calls' = [calls EXCEPT ![c] = Started("fetchActive", "direct", Undefined, Undefined, m,
                                           cacheFlag,
                                           Undefined, FetchActiveRequest(m))]
  /\ UNCHANGED <<heap, channelsCache, cache>>

\* the call fetch(options, co) ends in, routed by FetchRoute
Routed(m, options, co) ==
  LET cacheFlag == IF co.cache = Undefined THEN TRUE ELSE Truthy(co.cache)
      force == IF co.force = Undefined THEN FALSE ELSE Truthy(co.force)
      route == FetchRoute(options)
  IN  CASE route = "fetchActive" ->
             Started("fetchActive", "fetch", options, co, m, cacheFlag, Undefined,
                     FetchActiveRequest(m))
        [] route = "fetchArchived" ->
             Started("fetchArchived", "fetch", options, co, m, cacheFlag, ArchivedOf(options),
                     FetchArchivedRequest(m, ArchivedOf(options)))
        [] OTHER ->
             [Started("channels.fetch", "fetch", options, co, m, cacheFlag, Undefined,
                      [err |-> "none",
                       req |-> [method |-> "channels.fetch", id |-> ResolveId(options),
                                cache |-> cacheFlag, force |-> force]])
                EXCEPT !.pc = "delegated"]

\* fetch(options, co): the routing, and the routed call up to its await
Fetch(c, m, options, co) ==
  /\ Quiet /\ calls[c].pc = "idle"
  /\ calls' = [calls EXCEPT ![c] = Routed(m, options, co)]
  /\ UNCHANGED <<heap, channelsCache, cache>>

\* the request is handed to the transport: the call is suspended at its
\* await, and only what its continuation reads is kept
Send(c) ==
  /\ calls[c].pc = "issuing"
  /\ calls' = [calls EXCEPT ![c] =
       [Idle EXCEPT !.pc = "awaiting", !.op = calls[c].op, !.mgr = calls[c].mgr,
                    !.cache = calls[c].cache, !.sent = calls[c].sent + 1,
                    !.req = [method |-> calls[c].req.method]]]
  /\ UNCHANGED <<heap, channelsCache, cache>>

\* a variant in which a fetch that fails in the transport still merges a
\* partial body of one thread
TransportErrorMergingPartial(c) ==
  LET r == MapThreads(RawResponse(<<RawThread(TidA, Undefined)>>, <<>>, Undefined),
                      [heap |-> heap, cc |-> channelsCache, mc |-> cache], calls[c].mgr, TRUE)
  IN  /\ Quiet /\ calls[c].pc = "awaiting"
      /\ Len(r.st.heap) <= MaxInst
      /\ heap' = r.st.heap /\ channelsCache' = r.st.cc /\ cache' = r.st.mc
      /\ calls' = [calls EXCEPT ![c] = [@ EXCEPT !.pc = "threw", !.err = "transport"]]

\* a variant that answers a transport failure with a second request
TransportErrorRetries(c) ==
  /\ Quiet /\ calls[c].pc = "awaiting" /\ calls[c].sent < 2
  /\ calls' = [calls EXCEPT ![c] = [@ EXCEPT !.sent = @ + 1]]
  /\ UNCHANGED <<heap, channelsCache, cache>>

\* the transport fails: the error reaches the caller unchanged
TransportError(c) ==
  /\ Quiet /\ calls[c].pc = "awaiting"
  /\ calls' = [calls EXCEPT ![c] = [@ EXCEPT !.pc = "threw", !.err = "transport"]]
  /\ UNCHANGED <<heap, channelsCache, cache>>

\* a fetch resumes with the response raw: _mapThreads
FetchResume(c, raw) ==
  LET m == calls[c].mgr
      r == MapThreads(raw, [heap |-> heap, cc |-> channelsCache, mc |-> cache], m,
                      calls[c].cache)
  IN  /\ Quiet /\ calls[c].pc = "awaiting" /\ calls[c].op \in {"fetchActive", "fetchArchived"}
      /\ Len(r.st.heap) <= MaxInst
      /\ heap' = r.st.heap /\ channelsCache' = r.st.cc /\ cache' = r.st.mc
      /\ calls' = [calls EXCEPT ![c] = [@ EXCEPT !.pc = "returned", !.args = raw,
                                                 !.result = r.result]]

\* create resumes with the created thread's payload: ThreadCreate.handle
CreateResume(c, data) ==
  LET r == ThreadCreateHandle(data, [heap |-> heap, cc |-> channelsCache, mc |-> cache])
  IN  /\ Quiet /\ calls[c].pc = "awaiting" /\ calls[c].op = "create"
      /\ data.parent_id = calls[c].mgr
      /\ Len(r.st.heap) <= MaxInst
      /\ heap' = r.st.heap /\ channelsCache' = r.st.cc /\ cache' = r.st.mc
      /\ calls' = [calls EXCEPT ![c] = [@ EXCEPT !.pc = "returned", !.args = data,
                                                 !.result = [thread |-> r.thread]]]

\* the caller takes the outcome of a finished call
Settle(c) ==
  /\ calls[c].pc \in {"returned", "threw", "delegated"}
  /\ calls' = [calls EXCEPT ![c] = Idle]
  /\ UNCHANGED <<heap, channelsCache, cache>>

\* _add(thread) called on manager m with the live instance ref of its
\* channel; the call keeps what the cache held before (prev) and the return
AddCall(c, m, ref) ==
  LET r == ManagerAdd(cache[m], heap[ref].id, ref)
  IN  /\ Quiet /\ calls[c].pc = "idle" /\ heap[ref].parentId = m
      /\ cache' = [cache EXCEPT ![m] = r.cache]
      /\ calls' = [calls EXCEPT ![c] =
           [Idle EXCEPT !.pc = "returned", !.op = "_add", !.mgr = m,
                        !.args = [thread |-> ref, prev |-> cache[m][heap[ref].id],
                                  fields |-> heap],
                        !.result = [thread |-> r.ret]]]
      /\ UNCHANGED <<heap, channelsCache>>

\* the whole machine, one caller, few options
Next ==
  \/ \E m \in Channels, o \in FewCreateInputs : Create("a", m, o)
  \/ \E m \in Channels, o \in FewArchivedInputs, cf \in BOOLEAN : FetchArchived("a", m, o, cf)
  \/ \E m \in Channels, cf \in BOOLEAN : FetchActive("a", m, cf)
  \/ \E m \in Channels, o \in SelectorInputs, co \in CacheOptionInputs : Fetch("a", m, o, co)
  \/ Send("a")
  \/ TransportError("a")
  \/ \E raw \in RawResponses : FetchResume("a", raw)
  \/ \E data \in RawThreads : CreateResume("a", data)
  \/ Settle("a")
  \/ \E m \in Channels, ref \in Refs : AddCall("a", m, ref)

Spec == Init /\ [][Next]_vars

\* create alone, over all its options
NextCreate ==
  \/ \E m \in Channels, o \in CreateInputs : Create("a", m, o)
  \/ Send("a")
  \/ TransportError("a")
  \/ \E data \in RawThreads : CreateResume("a", data)
  \/ Settle("a")

SpecCreate == Init /\ [][NextCreate]_vars

\* fetchArchived alone, over all its options
NextArchived ==
  \/ \E m \in Channels, o \in ArchivedInputs, cf \in BOOLEAN : FetchArchived("a", m, o, cf)
  \/ Send("a")
  \/ TransportError("a")
  \/ \E raw \in RawResponsesNoMembers : FetchResume("a", raw)
  \/ Settle("a")

SpecArchived == Init /\ [][NextArchived]_vars

\* two callers fetching concurrently
NextConcurrent ==
  \E c \in Callers :
    \/ \E m \in Channels, cf \in BOOLEAN : FetchActive(c, m, cf)
    \/ \E m \in Channels, cf \in BOOLEAN :
         FetchArchived(c, m, ArchivedOptions(Undefined, Undefined, Undefined, Undefined), cf)
    \/ Send(c)
    \/ TransportError(c)
    \/ \E raw \in RawResponsesUnarchived : FetchResume(c, raw)
    \/ Settle(c)

SpecConcurrent == Init /\ [][NextConcurrent]_vars


(***************************************************************************)
(* Properties                                                              *)
(***************************************************************************)
\* call c has run operation op up to its request, or thrown before it
Entered(c, op) ==
  /\ calls[c].op = op
  /\ calls[c].pc = "issuing" \/ (calls[c].pc = "threw" /\ calls[c].err # "transport")
\* call c stands with the request of operation op built
Issuing(c, op) == calls[c].op = op /\ calls[c].pc = "issuing"
IsTimestampCursor(b) == b.tag = "string" /\ IsISOTimestamp(b.chars)
IsIdentifierCursor(b) ==
  b.tag = "string" /\ SnowflakePattern(b.chars) /\ ~IsISOTimestamp(b.chars)
\* type 'private' with fetchAll false, after the defaults
JoinedCase(d) == d.type = TypePrivate /\ ~Truthy(d.fetchAll)
\* `before` is a live thread entity or a string of 16 to 19 digits
EntityOrIdString(b) ==
  b.tag = "ThreadChannel" \/ (b.tag = "string" /\ SnowflakePattern(b.chars))

\* C1: in every fetchArchived request, for every value of `before`: with type
\* 'public' the `before` parameter is an ISO-8601 timestamp or absent; with
\* type 'private' and fetchAll false it is the thread identifier `before`
\* stands for or absent, never a timestamp.
C1_CursorSelection ==
  \A c \in Callers : Issuing(c, "fetchArchived") =>
    LET d == ArchivedDefaults(calls[c].args)
        b == calls[c].req.query.before
    IN  /\ d.type = TypePublic => (b = Undefined \/ IsTimestampCursor(b))
        /\ JoinedCase(d) =>
             \/ b = Undefined
             \/ /\ IsIdentifierCursor(b)
                /\ d.before.tag = "ThreadChannel" => b.chars = heap[d.before.ref].id
                /\ d.before.tag = "string" => b = d.before

\* C1 witness: private, fetchAll false, `before` a live entity that has an
\* archive timestamp, and the identifier is what is sent.
C1_Witness ==
  \E c \in Callers :
    /\ Issuing(c, "fetchArchived")
    /\ calls[c].args.type = TypePrivate /\ calls[c].args.fetchAll = Undefined
    /\ calls[c].args.before.tag = "ThreadChannel"
    /\ ~Nullish(heap[calls[c].args.before.ref].archivedAt)
    /\ calls[c].req.query.before = Str(heap[calls[c].args.before.ref].id)

\* C8: a fetchArchived request uses the joined-archived path exactly when type
\* is 'private' and fetchAll is false; every other combination uses the
\* channel-archived path of the given type; both on the bound channel.
C8_EndpointSelection ==
  \A c \in Callers : Issuing(c, "fetchArchived") =>
    LET d == ArchivedDefaults(calls[c].args)
        path == calls[c].req.path
    IN  /\ path.channelId = calls[c].mgr
        /\ path.route = "channelJoinedArchivedThreads"
             <=> (d.type = TypePrivate /\ ~Truthy(d.fetchAll))
        /\ path.route # "channelJoinedArchivedThreads"
             => (path.route = "channelThreads" /\ path.archived = d.type)

\* C8 witness: private with fetchAll true goes to the channel-archived path.
C8_Witness ==
  \E c \in Callers :
    /\ Issuing(c, "fetchArchived")
    /\ calls[c].args.type = TypePrivate /\ calls[c].args.fetchAll = Bool(TRUE)
    /\ calls[c].req.path.route = "channelThreads"

\* the archive timestamp, as an ISO string, of live instance ref, if it has one
TimestampOf(ref) ==
  IF Nullish(heap[ref].archivedAt) THEN Undefined
  ELSE Str(ToISOString(heap[ref].archivedAt.time))

C10_DateForm ==
  \A c \in Callers :
    (/\ Entered(c, "fetchArchived")
     /\ ArchivedDefaults(calls[c].args).before # Undefined
     /\ ~EntityOrIdString(ArchivedDefaults(calls[c].args).before)) =>
      LET d == ArchivedDefaults(calls[c].args)
          t == NewDate(d.before)
      IN  IF ~t.valid
          THEN calls[c].pc = "threw" /\ calls[c].err = "INVALID_TYPE:before"
          ELSE /\ calls[c].pc = "issuing"
               /\ calls[c].req.query.before =
                    IF JoinedCase(d) THEN Undefined ELSE Str(ToISOString(t))

\* the identifiers of the payloads of a raw response that name parent m
IdsUnder(raw, m) ==
  {raw.threads[i].id : i \in {j \in 1..Len(raw.threads) : raw.threads[j].parent_id = m}}

\* C2: for every raw response, listings of sibling channels' threads included,
\* the `threads` mapping returned by fetchActive and fetchArchived holds only
\* entities whose parentId is the id of the manager's bound channel (and holds
\* one for each payload of the response that names that channel).
C2_ParentFilter ==
  \A c \in Callers :
    (calls[c].pc = "returned" /\ calls[c].op \in {"fetchActive", "fetchArchived"}) =>
      LET threads == calls[c].result.threads
      IN  /\ \A i \in 1..Len(threads) : heap[threads[i]].parentId = calls[c].mgr
          /\ {heap[threads[i]].id : i \in 1..Len(threads)} = IdsUnder(calls[c].args, calls[c].mgr)

\* C2 witness: a response with two payloads, one under the bound channel and
\* one under a sibling, mapped to a result of exactly one entity.
C2_Witness ==
  \E c \in Callers :
    /\ calls[c].pc = "returned" /\ calls[c].op = "fetchActive"
    /\ Len(calls[c].args.threads) = 2
    /\ \E i \in 1..2 : calls[c].args.threads[i].parent_id # calls[c].mgr
    /\ Len(calls[c].result.threads) = 1

\* C3: every entry of a manager's cache is stored under the entity's own
\* identifier, one instance per identifier; _add with an identifier already in
\* the cache returns the stored instance, leaves it in the cache and leaves
\* all fields as they were; _add with a new identifier stores and returns the
\* given instance.
C3_IdempotentInsert ==
  /\ \A m \in Channels, id \in ThreadIds :
       cache[m][id] # 0 => (cache[m][id] \in Refs /\ heap[cache[m][id]].id = id)
  /\ \A c \in Callers :
       (calls[c].pc = "returned" /\ calls[c].op = "_add") =>
         LET a == calls[c].args
             id == heap[a.thread].id
         IN  IF a.prev # 0
             THEN /\ calls[c].result.thread = a.prev
                  /\ cache[calls[c].mgr][id] = a.prev
                  /\ heap = a.fields
             ELSE /\ calls[c].result.thread = a.thread
                  /\ cache[calls[c].mgr][id] = a.thread

\* C3 witness: _add was called with a second instance of an identifier the
\* cache already held, and the first instance came back.
C3_Witness ==
  \E c \in Callers :
    /\ calls[c].pc = "returned" /\ calls[c].op = "_add"
    /\ calls[c].args.prev # 0 /\ calls[c].args.prev # calls[c].args.thread
    /\ calls[c].result.thread = calls[c].args.prev

\* the caller's cache and force flags, with the defaults of fetch
CallerCache(co) == IF co.cache = Undefined THEN TRUE ELSE co.cache.b
CallerForce(co) == IF co.force = Undefined THEN FALSE ELSE co.force.b

\* C4: fetch(selector) delegates to exactly one target, decided in this order:
\* selector absent -> fetchActive; selector a raw identifier or a live entity
\* -> the single-entity channel fetch of that identifier with the caller's
\* cache and force flags; selector with `archived` sub-options -> fetchArchived
\* with those sub-options; otherwise fetchActive. A live entity, which also
\* has an `archived` field, goes to the single-entity fetch.
C4_FetchRouting ==
  \A c \in Callers :
    (calls[c].via = "fetch" /\ calls[c].pc \in {"issuing", "threw", "delegated"}
       /\ calls[c].err # "transport") =>
      LET sel == calls[c].selector
          co == calls[c].co
      IN  IF ~Truthy(sel)
          THEN calls[c].op = "fetchActive" /\ calls[c].cache = CallerCache(co)
          ELSE IF EntityOrIdString(sel)
          THEN /\ calls[c].op = "channels.fetch" /\ calls[c].pc = "delegated"
               /\ calls[c].req.id =
                    IF sel.tag = "ThreadChannel" THEN Str(heap[sel.ref].id) ELSE sel
               /\ calls[c].req.cache = CallerCache(co)
               /\ calls[c].req.force = CallerForce(co)
          ELSE IF sel.tag = "options" /\ Truthy(sel.archived)
          THEN /\ calls[c].op = "fetchArchived" /\ calls[c].args = sel.archived
               /\ calls[c].cache = CallerCache(co)
          ELSE calls[c].op = "fetchActive" /\ calls[c].cache = CallerCache(co)

\* C4 witness: the selector is a live, archived thread entity and the call is
\* the single-entity fetch of its identifier.
C4_Witness ==
  \E c \in Callers :
    /\ calls[c].via = "fetch" /\ calls[c].pc = "delegated"
    /\ calls[c].selector.tag = "ThreadChannel"
    /\ ~Nullish(heap[calls[c].selector.ref].archivedAt)
    /\ calls[c].req.id = Str(heap[calls[c].selector.ref].id)

\* the thread kinds create knows
RecognizedKinds == {GuildNewsThread, GuildPublicThread, GuildPrivateThread}

\* C5 as stated: whenever `type` is provided and is not one of the recognized
\* thread kinds, create fails with INVALID_TYPE and issues no remote write.
C5_AsStated ==
  \A c \in Callers :
    (/\ Entered(c, "create")
     /\ ~Nullish(calls[c].args.type)
     /\ calls[c].args.type \notin RecognizedKinds) =>
      /\ calls[c].pc = "threw" /\ calls[c].err = "INVALID_TYPE:type"
      /\ calls[c].req = NoRequest

\* C5 amended: create fails with INVALID_TYPE for `type`, with no remote write
\* issued, exactly when `type` is truthy and is neither a string nor a number;
\* a string or a number that is no recognized kind, and a falsy `type`, are not
\* rejected.
C5_TypeCheck ==
  \A c \in Callers : Entered(c, "create") =>
    /\ (calls[c].pc = "threw" /\ calls[c].err = "INVALID_TYPE:type")
         <=> (Truthy(calls[c].args.type)
              /\ TypeOf(calls[c].args.type) \notin {"string", "number"})
    /\ calls[c].pc = "threw" => (calls[c].req = NoRequest /\ calls[c].sent = 0)

\* C5 witness: create called with an object as `type` has thrown INVALID_TYPE
\* with nothing sent.
C5_Witness ==
  \E c \in Callers :
    /\ Entered(c, "create") /\ calls[c].args.type = PlainObject
    /\ calls[c].pc = "threw" /\ calls[c].err = "INVALID_TYPE:type"
    /\ calls[c].req = NoRequest

\* the thread kind that follows from the parent channel's type alone
KindOfParent(ch) ==
  IF ChannelTypeOf(ch) = GuildNews THEN GuildNewsThread ELSE GuildPublicThread

\* C6: when create is called with a resolvable startMessage, the `type` of the
\* request body is the kind given by the parent channel's type, and a call
\* that differs only in `type` builds the same request.
C6_KindOverride ==
  \A c \in Callers :
    (Issuing(c, "create") /\ Truthy(calls[c].args.startMessage)) =>
      /\ calls[c].req.body.type = KindOfParent(calls[c].mgr)
      /\ \A t \in TypeInputs :
           LET other == CreateRequest(calls[c].mgr, [calls[c].args EXCEPT !.type = t])
           IN  other.err = "none" => other.req = calls[c].req

\* C6 witness: a start message and type private on a text channel, and the
\* body asks for a public thread under that message.
C6_Witness ==
  \E c \in Callers :
    /\ Issuing(c, "create") /\ ChannelTypeOf(calls[c].mgr) = GuildText
    /\ calls[c].args.startMessage = MessageObj(MsgId)
    /\ calls[c].args.type = GuildPrivateThread
    /\ calls[c].req.body.type = GuildPublicThread
    /\ calls[c].req.path.messageId = Str(MsgId)

\* C7: without a start message, on an announcement channel the `type` sent is
\* the announcement thread kind whatever `type` the caller gave; on any other
\* channel it is the caller's `type`, or public when none is given.
C7_AnnouncementRule ==
  \A c \in Callers :
    (Issuing(c, "create") /\ ~Truthy(calls[c].args.startMessage)) =>
      IF ChannelTypeOf(calls[c].mgr) = GuildNews
      THEN calls[c].req.body.type = GuildNewsThread
      ELSE calls[c].req.body.type =
             IF Nullish(calls[c].args.type) THEN GuildPublicThread ELSE calls[c].args.type

\* C7 witness: no start message, type private, announcement channel, and the
\* body asks for an announcement thread.
C7_Witness ==
  \E c \in Callers :
    /\ Issuing(c, "create") /\ ChannelTypeOf(calls[c].mgr) = GuildNews
    /\ calls[c].args.startMessage = Undefined
    /\ calls[c].args.type = GuildPrivateThread
    /\ calls[c].req.body.type = GuildNewsThread

\* call c is a fetchActive or fetchArchived that has returned its result
FetchReturned(c) ==
  calls[c].pc = "returned" /\ calls[c].op \in {"fetchActive", "fetchArchived"}

\* C11: after fetchActive or fetchArchived completes with cache=true, every
\* entity of the returned `threads` mapping is in the shared channel cache
\* under its identifier, and the cached value is that same instance.
C11_RoundTrip ==
  \A c \in Callers : (FetchReturned(c) /\ calls[c].cache) =>
    \A i \in 1..Len(calls[c].result.threads) :
      LET ref == calls[c].result.threads[i]
      IN  channelsCache[heap[ref].id] = ref

\* C11 witness: a fetch with cache=true has returned a non-empty mapping whose
\* first entity is the instance the shared cache holds.
C11_Witness ==
  \E c \in Callers :
    /\ FetchReturned(c) /\ calls[c].cache
    /\ Len(calls[c].result.threads) > 0
    /\ channelsCache[heap[calls[c].result.threads[1]].id] = calls[c].result.threads[1]

\* the operations that talk to the transport, and the method each uses
TransportOps == {"create", "fetchActive", "fetchArchived"}
MethodOf(op) == IF op = "create" THEN "post" ELSE "get"

\* C12: an invocation of create, fetchActive or fetchArchived issues at most
\* one transport call (a post for create, a get for the fetches); one that
\* fails with INVALID_TYPE has issued none; one that has been sent, whether it
\* is still awaited, has returned or has ended with the transport's error, has
\* issued exactly one.
C12_OneRoundTrip ==
  \A c \in Callers : calls[c].op \in TransportOps =>
    /\ calls[c].sent <= 1
    /\ calls[c].pc = "issuing" =>
         (calls[c].sent = 0 /\ calls[c].req.method = MethodOf(calls[c].op))
    /\ (calls[c].pc = "threw" /\ calls[c].err # "transport") =>
         (calls[c].sent = 0 /\ calls[c].req = NoRequest
            /\ calls[c].err \in {"INVALID_TYPE:type", "INVALID_TYPE:startMessage",
                                 "INVALID_TYPE:before"})
    /\ (calls[c].pc \in {"awaiting", "returned"}
          \/ (calls[c].pc = "threw" /\ calls[c].err = "transport")) =>
         (calls[c].sent = 1 /\ calls[c].req.method = MethodOf(calls[c].op))

\* C12 witness: a create whose post failed in the transport has ended with
\* that error after its one call.
C12_Witness ==
  \E c \in Callers :
    /\ calls[c].op = "create" /\ calls[c].pc = "threw" /\ calls[c].err = "transport"
    /\ calls[c].sent = 1

\* C13: every step of a create other than the hand-off of the response to the
\* creation-event handler (its start, its throw of INVALID_TYPE, the sending of
\* its request, its failure in the transport) leaves the manager caches, the
\* shared cache and the entities unchanged.
C13_CreateFrame ==
  [][\A c \in Callers :
       (calls'[c] # calls[c] /\ calls'[c].op = "create" /\ calls'[c].pc # "returned") =>
         (cache' = cache /\ channelsCache' = channelsCache /\ heap' = heap)]_vars

\* C13 witness: a create has failed in the transport while the cache of its
\* manager holds a thread.
C13_Witness ==
  \E c \in Callers :
    /\ calls[c].op = "create" /\ calls[c].pc = "threw" /\ calls[c].err = "transport"
    /\ \E id \in ThreadIds : cache[calls[c].mgr][id] # 0

\* the identifiers named by the membership payloads of a raw response
MemberIds(raw) == {raw.members[i] : i \in 1..Len(raw.members)}

\* C14: after a fetch has mapped its response, for every membership payload
\* the entity of this call sharing its identifier (the one of the returned
\* mapping, or the one the shared cache holds) has received the membership
\* data, whatever the caller's cache flag and whether or not the entity was
\* kept in the mapping; the keys of the mapping are those the parent filter
\* left.
C14_MembershipAttachment ==
  \A c \in Callers : FetchReturned(c) =>
    LET raw == calls[c].args
        threads == calls[c].result.threads
        payloadIds == {raw.threads[i].id : i \in 1..Len(raw.threads)}
    IN  /\ \A id \in MemberIds(raw) \cap payloadIds :
             /\ channelsCache[id] # 0 => heap[channelsCache[id]].hasMember
             /\ \A i \in 1..Len(threads) :
                  heap[threads[i]].id = id => heap[threads[i]].hasMember
        /\ {heap[threads[i]].id : i \in 1..Len(threads)} = IdsUnder(raw, calls[c].mgr)

\* the instance call c's returned mapping holds for identifier id (0: none)
ResultRef(c, id) ==
  LET threads == calls[c].result.threads
      hits == {i \in 1..Len(threads) : heap[threads[i]].id = id}
  IN  IF hits = {} THEN 0 ELSE threads[CHOOSE i \in hits : TRUE]

\* every cached identifier is cached once: the shared cache and the cache of
\* the thread's parent manager hold the same instance, of that identifier, and
\* no other manager holds one
OneEntryPerId ==
  \A id \in ThreadIds :
    /\ channelsCache[id] # 0 => heap[channelsCache[id]].id = id
    /\ \A m \in Channels :
         cache[m][id] = IF m = RemoteParent(id) THEN channelsCache[id] ELSE 0

\* the identifiers of the payloads of a raw response
PayloadIds(raw) == {raw.threads[i].id : i \in 1..Len(raw.threads)}

\* C15 as stated: whenever two concurrent fetches have returned from responses
\* that contain the same thread identifier, the cache holds exactly one entry
\* for that identifier and every result mapping that has the identifier refers
\* to that cached instance.
C15_AsStated ==
  \A c1, c2 \in Callers :
    (c1 # c2 /\ FetchReturned(c1) /\ FetchReturned(c2)) =>
      \A id \in PayloadIds(calls[c1].args) \cap PayloadIds(calls[c2].args) :
        /\ OneEntryPerId /\ channelsCache[id] # 0
        /\ \A c \in {c1, c2} : ResultRef(c, id) # 0 => ResultRef(c, id) = channelsCache[id]

\* C15 amended: for every interleaving of concurrent fetches, the cache holds
\* at most one entry per identifier; the result mapping of every fetch made
\* with cache=true refers to the cached instance, so two such fetches whose
\* mappings share an identifier share the instance (the one inserted first);
\* a fetch made with cache=false refers to the cached instance or to a fresh
\* instance that no cache holds.
C15_ConcurrentInserts ==
  /\ OneEntryPerId
  /\ \A c \in Callers : FetchReturned(c) =>
       \A id \in ThreadIds :
         ResultRef(c, id) # 0 =>
           IF calls[c].cache
           THEN ResultRef(c, id) = channelsCache[id]
           ELSE \/ ResultRef(c, id) = channelsCache[id]
                \/ \A id2 \in ThreadIds : channelsCache[id2] # ResultRef(c, id)
  /\ \A c1, c2 \in Callers :
       (FetchReturned(c1) /\ FetchReturned(c2) /\ calls[c1].cache /\ calls[c2].cache) =>
         \A id \in ThreadIds :
           (ResultRef(c1, id) # 0 /\ ResultRef(c2, id) # 0) =>
             ResultRef(c1, id) = ResultRef(c2, id)

\* C15 witness: two fetches in flight at once, both with cache=true, have
\* returned mappings that hold the same instance of one identifier.
C15_Witness ==
  \E id \in ThreadIds :
    /\ FetchReturned("a") /\ FetchReturned("b")
    /\ calls["a"].cache /\ calls["b"].cache
    /\ ResultRef("a", id) # 0 /\ ResultRef("a", id) = ResultRef("b", id)

C17_FailedFetchFrame ==
  [][\A c \in Callers :
       (/\ calls'[c] # calls[c]
        /\ calls'[c].op \in {"fetchActive", "fetchArchived"}
        /\ calls'[c].pc # "returned") =>
         (cache' = cache /\ channelsCache' = channelsCache /\ heap' = heap)]_vars

\* C17 witness: a fetch has failed, with INVALID_TYPE for `before` or in the
\* transport, while a thread is cached.
C17_Witness ==
  /\ \E id \in ThreadIds : channelsCache[id] # 0
  /\ \E c \in Callers :
       /\ calls[c].op \in {"fetchActive", "fetchArchived"} /\ calls[c].pc = "threw"
       /\ calls[c].err \in {"INVALID_TYPE:before", "transport"}

\* C18: after a fetch with cache=true has mapped its response, every thread
\* payload of the response, those of sibling channels included, has its entity
\* in the shared cache, and the returned mapping holds only such entities: the
\* mapping is a subset of what the call materialized.
C18_FilterAfterCaching ==
  \A c \in Callers : (FetchReturned(c) /\ calls[c].cache) =>
    LET raw == calls[c].args
        threads == calls[c].result.threads
    IN  /\ \A id \in PayloadIds(raw) :
             channelsCache[id] # 0 /\ heap[channelsCache[id]].id = id
        /\ \A i \in 1..Len(threads) :
             /\ heap[threads[i]].id \in PayloadIds(raw)
             /\ threads[i] = channelsCache[heap[threads[i]].id]

\* C18 witness: a fetchActive with cache=true on one channel was answered with
\* a thread of the sibling channel: the thread is in the shared cache and not
\* in the returned mapping.
C18_Witness ==
  \E c \in Callers, id \in ThreadIds :
    /\ calls[c].op = "fetchActive" /\ calls[c].pc = "returned" /\ calls[c].cache
    /\ id \in PayloadIds(calls[c].args) /\ RemoteParent(id) # calls[c].mgr
    /\ channelsCache[id] # 0
    /\ ResultRef(c, id) = 0

\* C19: in every create request the `invitable` field of the body is the
\* caller's value when the `type` of the same body is the private thread kind
\* and is omitted otherwise; with a start message, or on an announcement
\* channel, it is omitted whatever the caller passed.
C19_InvitableKindConditional ==
  \A c \in Callers : Issuing(c, "create") =>
    LET body == calls[c].req.body
    IN  /\ body.invitable =
             IF body.type = GuildPrivateThread THEN calls[c].args.invitable ELSE Undefined
        /\ (Truthy(calls[c].args.startMessage) \/ ChannelTypeOf(calls[c].mgr) = GuildNews)
             => body.invitable = Undefined

\* C19 witness: create with a start message, type private and invitable true
\* sends a body without `invitable`.
C19_Witness ==
  \E c \in Callers :
    /\ Issuing(c, "create") /\ Truthy(calls[c].args.startMessage)
    /\ calls[c].args.type = GuildPrivateThread /\ calls[c].args.invitable = Bool(TRUE)
    /\ calls[c].req.body.invitable = Undefined

====
